---------------------------- MODULE Spec2Model ----------------------------
(***************************************************************************)
(* TempCycleDMA: the block-streamed temperature acquisition state machine  *)
(* (tarefa1_obter_media_temp), the DMA channel and its completion          *)
(* interrupt, and the cyclic executor of tarefa_1 .. tarefa_5 driven by    *)
(* five repeating timers of the same period.                               *)
(*                                                                         *)
(* Floats are modelled in fixed point: a temperature x is held as the      *)
(* integer x * ESCALA.  With conv = 3.3/4096,                              *)
(*   27 - (raw*conv - 0.706)/0.001721                                      *)
(*     = (96315776 - 103125*raw) / 220288                                  *)
(* exactly, so convert_to_celsius is an integer in units of 1/ESCALA.      *)
(* A float division is the floor division of the fixed-point values.       *)
(***************************************************************************)
EXTENDS Integers, Naturals, Sequences, FiniteSets

\* ------------------------------------------------------------- bounds
\* Block size (10000 in the firmware), scaled down.
BLOCO_AMOSTRAS == 3
\* Window duration (500000 us in the firmware), in model time units.
DURACAO_AMOSTRAGEM_US == 2
\* The clock stops advancing here.
MaxTempo == 4
\* Timer ticks driven after the readiness gate has opened.
MaxPos == 9

\* ---------------------------------------------------------- constants
\* Throttle divisor of tarefa_2 .. tarefa_5 (the literal 3 of ++contador < 3).
K == 3
\* Fixed-point denominator: 4096 * 1721 / 32.
ESCALA == 220288
\* Time one block transfer takes, in model time units.
DURACAO_BLOCO == 1

\* Raw ADC readings the sensor may deliver (12 bit): about 1.86 and -0.01 C.
Amostras == {930, 934}
\* Values of tendencia_t that tarefa3_analisa_tendencia may return.
Tendencias == {1, 2}
\* The throttled tasks, by the number in their name.
Jusante == 2..5

VARIABLES
    \* tarefa1_temp.c
    estado_t1, inicio_amostragem, soma_temp, total_amostras, media_temp,
    buffer_temp, dma_temp_done,
    \* main.c
    ciclo_finalizado, media, t, leitura_temp_concluida, contador, estado,
    \* hardware: DMA channel, its interrupt line, ADC, NeoPixel matrix, clock,
    \* and the timer whose callback is due next
    dma_restante, irq_pendente, adc_ligado, np, agora, vez,
    \* history variables (observers, never read by the program)
    chamou, n_t1, ociosas, blocos, mudancas, completos, latches, exec, inv,
    id_transf, id_concluida, sinal_de, leitura_suja, g_soma, g_n, g_valores,
    \* which kind of run this is: FALSE, the history counters count and the
    \* clock stops at MaxTempo; TRUE, a run without end (see InitVivo)
    sem_limite

smVars == <<estado_t1, inicio_amostragem, soma_temp, total_amostras,
            media_temp, buffer_temp, dma_temp_done>>
mainVars == <<ciclo_finalizado, media, t, leitura_temp_concluida, contador,
              estado>>
hwVars == <<dma_restante, irq_pendente, adc_ligado, np, agora, vez>>
histVars == <<chamou, n_t1, sem_limite, ociosas, blocos, mudancas,
              completos, latches, exec, inv,
              id_transf, id_concluida, sinal_de, leitura_suja, g_soma, g_n,
              g_valores>>
vars == <<smVars, mainVars, hwVars, histVars>>

\* ------------------------------------------------------ pure functions
convert_to_celsius(raw) == 96315776 - 103125 * raw

\* The loop of lines 119-121: the sum of the converted samples buf[1..n].
RECURSIVE SomaBloco(_, _)
SomaBloco(buf, n) ==
    IF n = 0 THEN 0 ELSE SomaBloco(buf, n - 1) + convert_to_celsius(buf[n])

tarefa1_termina == media_temp

\* The state after the static initialisers, before the first timer tick.
Estado0 ==
    /\ estado_t1 = "PARADO"
    /\ inicio_amostragem = 0
    /\ soma_temp = 0
    /\ total_amostras = 0
    /\ media_temp = 0
    /\ buffer_temp = [i \in 1..BLOCO_AMOSTRAS |-> 0]
    /\ dma_temp_done = FALSE
    /\ ciclo_finalizado = FALSE
    /\ media = 0
    /\ t = 0
    /\ leitura_temp_concluida = FALSE
    /\ contador = [i \in Jusante |-> 0]
    /\ estado = FALSE
    /\ dma_restante = 0
    /\ irq_pendente = FALSE
    /\ adc_ligado = FALSE
    /\ np = <<"cor", "apagado">>
    /\ agora = 0
    /\ vez = 1
    /\ chamou = 0
    /\ ociosas = 0
    /\ mudancas = 0
    /\ completos = 0
    /\ latches = 0
    /\ exec = [i \in Jusante |-> 0]
    /\ inv = [i \in Jusante |-> 0]
    /\ id_transf = 0
    /\ id_concluida = 0
    /\ sinal_de = 0
    /\ leitura_suja = FALSE
    /\ g_soma = 0
    /\ g_n = 0
    /\ g_valores = {}
    /\ blocos = 0
    /\ n_t1 = 0

Init == Estado0 /\ sem_limite = FALSE

\* The same state for the runs without end: the history counters stand
\* still and the origin of time moves to the start of each window.
InitVivo == Estado0 /\ sem_limite = TRUE

\* A history counter after one more event.
Conta(x) == IF sem_limite THEN x ELSE x + 1


\* ------------------------------------------- acquisition state machine
\* iniciar_dma_temp: ADC on channel 4, FIFO drained and re-armed, the DMA
\* channel configured for BLOCO_AMOSTRAS words and triggered.
iniciar_dma_temp ==
    /\ adc_ligado' = TRUE
    /\ dma_restante' = BLOCO_AMOSTRAS
    /\ id_transf' = Conta(id_transf)

\* Mutant: case ESTADO_PARADO without its break, falling into
\* case ESTADO_INICIANDO in the same call.
CasoParado_semBreak(ret) ==
    /\ soma_temp' = 0
    /\ total_amostras' = 0
    /\ inicio_amostragem' = agora'
    /\ dma_temp_done' = FALSE
    /\ iniciar_dma_temp
    /\ estado_t1' = "AGUARDANDO_DMA"
    /\ ret = FALSE
    /\ g_soma' = 0 /\ g_n' = 0 /\ g_valores' = {}
    /\ UNCHANGED <<media_temp, buffer_temp, leitura_suja>>

\* Mutant: case ESTADO_PARADO that forgets inicio_amostragem =
\* get_absolute_time().
CasoParado_semInicio(ret) ==
    /\ soma_temp' = 0
    /\ total_amostras' = 0
    /\ estado_t1' = "INICIANDO"
    /\ ret = FALSE
    /\ g_soma' = 0 /\ g_n' = 0 /\ g_valores' = {}
    /\ UNCHANGED <<inicio_amostragem, media_temp, buffer_temp, dma_temp_done,
                   dma_restante, adc_ligado, id_transf, leitura_suja>>

\* Mutant: case ESTADO_PARADO that forgets soma_temp = 0.0f.
CasoParado_semZerar(ret) ==
    /\ total_amostras' = 0
    /\ inicio_amostragem' = agora'
    /\ estado_t1' = "INICIANDO"
    /\ ret = FALSE
    /\ g_soma' = 0 /\ g_n' = 0 /\ g_valores' = {}
    /\ UNCHANGED <<soma_temp, media_temp, buffer_temp, dma_temp_done,
                   dma_restante, adc_ligado, id_transf, leitura_suja>>

\* Mutant: case ESTADO_PARADO that forgets total_amostras = 0.
CasoParado_semTotal(ret) ==
    /\ soma_temp' = 0
    /\ inicio_amostragem' = agora'
    /\ estado_t1' = "INICIANDO"
    /\ ret = FALSE
    /\ g_soma' = 0 /\ g_n' = 0 /\ g_valores' = {}
    /\ UNCHANGED <<total_amostras, media_temp, buffer_temp, dma_temp_done,
                   dma_restante, adc_ligado, id_transf, leitura_suja>>

\* case ESTADO_PARADO
CasoParado(ret) ==
    /\ soma_temp' = 0
    /\ total_amostras' = 0
    /\ inicio_amostragem' = agora'
    /\ estado_t1' = "INICIANDO"
    /\ ret = FALSE
    /\ g_soma' = 0 /\ g_n' = 0 /\ g_valores' = {}
    /\ UNCHANGED <<media_temp, buffer_temp, dma_temp_done, dma_restante,
                   adc_ligado, id_transf, leitura_suja>>

\* Mutant: case ESTADO_INICIANDO that forgets dma_temp_done = false.
CasoIniciando_semLimpar(ret) ==
    /\ iniciar_dma_temp
    /\ estado_t1' = "AGUARDANDO_DMA"
    /\ ret = FALSE
    /\ UNCHANGED <<soma_temp, total_amostras, inicio_amostragem, media_temp,
                   buffer_temp, dma_temp_done, leitura_suja, g_soma, g_n,
                   g_valores>>

\* Mutant: case ESTADO_INICIANDO that forgets iniciar_dma_temp().
CasoIniciando_semDma(ret) ==
    /\ dma_temp_done' = FALSE
    /\ estado_t1' = "AGUARDANDO_DMA"
    /\ ret = FALSE
    /\ UNCHANGED <<soma_temp, total_amostras, inicio_amostragem, media_temp,
                   buffer_temp, leitura_suja, g_soma, g_n, g_valores,
                   adc_ligado, dma_restante, id_transf>>

\* case ESTADO_INICIANDO
CasoIniciando(ret) ==
    /\ dma_temp_done' = FALSE
    /\ iniciar_dma_temp
    /\ estado_t1' = "AGUARDANDO_DMA"
    /\ ret = FALSE
    /\ UNCHANGED <<soma_temp, total_amostras, inicio_amostragem, media_temp,
                   buffer_temp, leitura_suja, g_soma, g_n, g_valores>>

\* The body of if (dma_temp_done): the block is accumulated, then the
\* window is closed or another block is asked for.
ConsomeBloco(ret) ==
    /\ adc_ligado' = FALSE
    /\ soma_temp' = soma_temp + SomaBloco(buffer_temp, BLOCO_AMOSTRAS)
    /\ total_amostras' = total_amostras + BLOCO_AMOSTRAS
    /\ leitura_suja' = (leitura_suja \/ dma_restante > 0)
    /\ IF agora - inicio_amostragem >= DURACAO_AMOSTRAGEM_US
       THEN /\ media_temp' = soma_temp' \div total_amostras'
            /\ estado_t1' = "PARADO"
            /\ ret = TRUE
       ELSE /\ estado_t1' = "INICIANDO"
            /\ ret = FALSE
            /\ UNCHANGED media_temp
    /\ UNCHANGED <<inicio_amostragem, buffer_temp, dma_temp_done,
                   dma_restante, id_transf, g_soma, g_n, g_valores>>

\* Mutant: case ESTADO_AGUARDANDO_DMA without the test of dma_temp_done.
CasoAguardando_semEspera(ret) == ConsomeBloco(ret)

\* Mutant: case ESTADO_AGUARDANDO_DMA that gives the transfer up once the
\* window has elapsed and goes back to ESTADO_PARADO.
CasoAguardando_comTimeout(ret) ==
    IF dma_temp_done
    THEN ConsomeBloco(ret)
    ELSE /\ ret = FALSE
         /\ estado_t1' =
               IF agora - inicio_amostragem >= DURACAO_AMOSTRAGEM_US
               THEN "PARADO" ELSE estado_t1
         /\ UNCHANGED <<inicio_amostragem, soma_temp, total_amostras,
                        media_temp, buffer_temp, dma_temp_done, dma_restante,
                        adc_ligado, id_transf, leitura_suja, g_soma, g_n,
                        g_valores>>

\* case ESTADO_AGUARDANDO_DMA
CasoAguardando(ret) ==
    IF dma_temp_done
    THEN ConsomeBloco(ret)
    ELSE /\ ret = FALSE
         /\ UNCHANGED <<smVars, dma_restante, adc_ligado, id_transf,
                        leitura_suja, g_soma, g_n, g_valores>>

\* One call of the state machine, returning ret.
tarefa1_obter_media_temp(ret) ==
    /\ agora' = IF sem_limite /\ estado_t1 = "PARADO" THEN 0 ELSE agora
    /\ CASE estado_t1 = "PARADO" -> CasoParado(ret)
         [] estado_t1 = "INICIANDO" -> CasoIniciando(ret)
         [] estado_t1 = "AGUARDANDO_DMA" -> CasoAguardando(ret)
    /\ ociosas' = IF estado_t1 = "AGUARDANDO_DMA" /\ ~dma_temp_done
                  THEN (IF ociosas < 2 THEN ociosas + 1 ELSE ociosas)
                  ELSE 0
    /\ blocos' = CASE estado_t1 = "PARADO" -> 0
                   [] estado_t1 = "AGUARDANDO_DMA" /\ dma_temp_done
                        -> blocos + 1
                   [] OTHER -> blocos

\* ------------------------------------------------------ DMA and clock
\* The readings the sensor may deliver next: any of Amostras; in the runs
\* without end the temperature is steady for the length of a window and
\* may differ from one window to the next.
Sensor == IF sem_limite /\ g_valores # {} THEN g_valores ELSE Amostras

\* The channel moves one sample from the ADC FIFO into the buffer; the last
\* word of the block raises the channel's interrupt.
DmaPalavra ==
    /\ dma_restante > 0
    /\ adc_ligado
    /\ (dma_restante = 1 /\ ~sem_limite)
         => agora + DURACAO_BLOCO <= MaxTempo
    /\ \E r \in Sensor :
          /\ buffer_temp' = [buffer_temp EXCEPT
                                ![BLOCO_AMOSTRAS - dma_restante + 1] = r]
          /\ g_soma' = g_soma + convert_to_celsius(r)
          /\ g_valores' = g_valores \cup {r}
    /\ g_n' = g_n + 1
    /\ dma_restante' = dma_restante - 1
    /\ irq_pendente' = (irq_pendente \/ dma_restante = 1)
    /\ agora' = IF dma_restante # 1 THEN agora
                ELSE IF agora + DURACAO_BLOCO <= MaxTempo
                     THEN agora + DURACAO_BLOCO ELSE MaxTempo
    /\ id_concluida' = IF dma_restante = 1 THEN id_transf ELSE id_concluida
    /\ UNCHANGED <<estado_t1, inicio_amostragem, soma_temp, total_amostras,
                   media_temp, dma_temp_done, mainVars, adc_ligado, np, vez,
                   chamou, n_t1, sem_limite, ociosas, blocos, mudancas,
                   completos, latches, exec, inv,
                   id_transf, sinal_de, leitura_suja>>

\* The transfer-completion interrupt handler: raises the completion flag.
dma_handler ==
    /\ irq_pendente
    /\ irq_pendente' = FALSE
    /\ dma_temp_done' = TRUE
    /\ sinal_de' = id_concluida
    /\ UNCHANGED <<estado_t1, inicio_amostragem, soma_temp, total_amostras,
                   media_temp, buffer_temp, mainVars, dma_restante,
                   adc_ligado, np, agora, vez, chamou, n_t1, sem_limite,
                   ociosas, blocos, mudancas,
                   completos, latches, exec, inv, id_transf, id_concluida,
                   leitura_suja, g_soma, g_n, g_valores>>

\* get_absolute_time is monotonic: time passes between any two steps.
PassaTempo ==
    /\ agora < MaxTempo
    /\ agora' = agora + 1
    /\ UNCHANGED <<smVars, mainVars, dma_restante, irq_pendente, adc_ligado,
                   np, vez, histVars>>

\* ------------------------------------------------------ cyclic executor
\* Mutant: the test written ++contador <= 3.
Limiar_folgado(c) == c + 1 <= K

\* The test ++contador < 3 of a call that finds the counter at c.
Limiar(c) == c + 1 < K

\* Mutant: a throttled task without if (!leitura_temp_concluida) return.
ContadorApos_semPortao(c) == IF c + 1 < K THEN c + 1 ELSE 0

\* Mutant: a throttled task that forgets contador = 0.
ContadorApos_semZerar(c) == IF ~leitura_temp_concluida THEN c ELSE c + 1

\* The counter of a throttled task after one call that found it at c.
ContadorApos(c) ==
    IF ~leitura_temp_concluida THEN c
    ELSE IF Limiar(c) THEN c + 1 ELSE 0

\* Whether a call that finds the counter at c reaches the payload.
Executa(c) == leitura_temp_concluida /\ ~Limiar(c)

\* What every throttled task does before and around its payload.
Limitador(i) ==
    /\ vez = i
    /\ vez' = IF i = 5 THEN 1 ELSE i + 1
    /\ contador' = [contador EXCEPT ![i] = ContadorApos(contador[i])]
    /\ exec' = [exec EXCEPT ![i] =
                  IF Executa(contador[i]) THEN Conta(@) ELSE @]
    /\ inv' = [inv EXCEPT ![i] =
                 IF leitura_temp_concluida THEN Conta(@) ELSE @]
    /\ UNCHANGED <<smVars, ciclo_finalizado, media, leitura_temp_concluida,
                   dma_restante, irq_pendente, adc_ligado, agora, chamou,
                   n_t1, sem_limite,
                   ociosas, blocos, mudancas, completos, latches, id_transf,
                   id_concluida, sinal_de, leitura_suja, g_soma, g_n,
                   g_valores>>

\* Mutant: the call that reports a finished cycle opens the gate itself.
Aquisicao_comPortao ==
    /\ \E ret \in BOOLEAN :
          /\ tarefa1_obter_media_temp(ret)
          /\ ciclo_finalizado' = ret
          /\ completos' = (IF ret THEN Conta(completos) ELSE completos)
          /\ leitura_temp_concluida' = (leitura_temp_concluida \/ ret)
    /\ chamou' = 1
    /\ UNCHANGED <<media, latches>>

\* tarefa_1 while no finished cycle is pending: one call of the state
\* machine, whose result is kept in ciclo_finalizado.
Aquisicao ==
    /\ \E ret \in BOOLEAN :
          /\ tarefa1_obter_media_temp(ret)
          /\ ciclo_finalizado' = ret
          /\ completos' = (IF ret THEN Conta(completos) ELSE completos)
    /\ chamou' = 1
    /\ UNCHANGED <<media, leitura_temp_concluida, latches>>

\* Mutant: the latch step toggles the gate instead of setting it.
Latch_alterna ==
    /\ media' = tarefa1_termina
    /\ ciclo_finalizado' = FALSE
    /\ leitura_temp_concluida' = ~leitura_temp_concluida
    /\ chamou' = 0
    /\ latches' = Conta(latches)
    /\ UNCHANGED <<smVars, dma_restante, adc_ligado, agora, ociosas, blocos,
                   completos,
                   id_transf, leitura_suja, g_soma, g_n, g_valores>>

\* Mutant: the latch step forgets ciclo_finalizado = false.
Latch_semBaixar ==
    /\ media' = tarefa1_termina
    /\ leitura_temp_concluida' = TRUE
    /\ chamou' = 0
    /\ latches' = Conta(latches)
    /\ UNCHANGED <<smVars, ciclo_finalizado, dma_restante, adc_ligado, agora,
                   ociosas, blocos, completos, id_transf, leitura_suja,
                   g_soma, g_n,
                   g_valores>>

\* Mutant: the latch step forgets media = tarefa1_termina().
Latch_semMedia ==
    /\ ciclo_finalizado' = FALSE
    /\ leitura_temp_concluida' = TRUE
    /\ chamou' = 0
    /\ latches' = Conta(latches)
    /\ UNCHANGED <<smVars, media, dma_restante, adc_ligado, agora, ociosas,
                   blocos,
                   completos, id_transf, leitura_suja, g_soma, g_n,
                   g_valores>>

\* Mutant: the latch step forgets leitura_temp_concluida = true.
Latch_semPortao ==
    /\ media' = tarefa1_termina
    /\ ciclo_finalizado' = FALSE
    /\ chamou' = 0
    /\ latches' = Conta(latches)
    /\ UNCHANGED <<smVars, leitura_temp_concluida, dma_restante, adc_ligado,
                   agora,
                   ociosas, blocos, completos, id_transf, leitura_suja,
                   g_soma, g_n,
                   g_valores>>

\* tarefa_1 on the tick after a finished cycle: the average is latched into
\* media and the readiness gate is opened.
Latch ==
    /\ media' = tarefa1_termina
    /\ ciclo_finalizado' = FALSE
    /\ leitura_temp_concluida' = TRUE
    /\ chamou' = 0
    /\ latches' = Conta(latches)
    /\ UNCHANGED <<smVars, dma_restante, adc_ligado, agora, ociosas, blocos,
                   completos,
                   id_transf, leitura_suja, g_soma, g_n, g_valores>>

\* Mutant: tarefa_1 with the test of ciclo_finalizado inverted.
tarefa_1_invertida ==
    /\ vez = 1
    /\ inv[5] < MaxPos
    /\ vez' = 2
    /\ IF ciclo_finalizado THEN Aquisicao ELSE Latch
    /\ mudancas' = mudancas +
                   (IF leitura_temp_concluida' # leitura_temp_concluida
                    THEN 1 ELSE 0)
    /\ n_t1' = (IF n_t1 < 5 THEN n_t1 + 1 ELSE n_t1)
    /\ UNCHANGED <<t, contador, estado, irq_pendente, np, exec, inv,
                   id_concluida, sinal_de, sem_limite>>

tarefa_1 ==
    /\ vez = 1
    /\ inv[5] < MaxPos
    /\ vez' = 2
    /\ IF ~ciclo_finalizado THEN Aquisicao ELSE Latch
    /\ mudancas' = mudancas +
                   (IF leitura_temp_concluida' # leitura_temp_concluida
                    THEN 1 ELSE 0)
    /\ n_t1' = (IF n_t1 < 5 THEN n_t1 + 1 ELSE n_t1)
    /\ UNCHANGED <<t, contador, estado, irq_pendente, np, exec, inv,
                   id_concluida, sinal_de, sem_limite>>

\* Mutant: tarefa_2 with the test written ++contador < 4.
tarefa_2_limiar4 ==
    /\ vez = 2
    /\ vez' = 3
    /\ contador' = [contador EXCEPT ![2] =
                      IF ~leitura_temp_concluida THEN @
                      ELSE IF @ + 1 < K + 1 THEN @ + 1 ELSE 0]
    /\ exec' = [exec EXCEPT ![2] =
                  IF leitura_temp_concluida /\ ~(contador[2] + 1 < K + 1)
                  THEN Conta(@) ELSE @]
    /\ inv' = [inv EXCEPT ![2] =
                 IF leitura_temp_concluida THEN Conta(@) ELSE @]
    /\ IF leitura_temp_concluida /\ ~(contador[2] + 1 < K + 1)
       THEN \E r \in Tendencias : t' = r
       ELSE UNCHANGED t
    /\ UNCHANGED <<smVars, ciclo_finalizado, media, leitura_temp_concluida,
                   dma_restante, irq_pendente, adc_ligado, agora, chamou,
                   n_t1, sem_limite,
                   ociosas, blocos, mudancas, completos, latches, id_transf,
                   id_concluida, sinal_de, leitura_suja, g_soma, g_n,
                   g_valores, estado, np>>

\* Trend analysis of the latched average.
tarefa_2 ==
    /\ Limitador(2)
    /\ IF Executa(contador[2])
       THEN \E r \in Tendencias : t' = r
       ELSE UNCHANGED t
    /\ UNCHANGED <<estado, np>>

\* OLED display of media and t.
tarefa_3 ==
    /\ Limitador(3)
    /\ UNCHANGED <<t, estado, np>>

\* NeoPixel matrix coloured by the trend.
tarefa_4 ==
    /\ Limitador(4)
    /\ np' = IF Executa(contador[4]) THEN <<"tendencia", t>> ELSE np
    /\ UNCHANGED <<t, estado>>

\* Blinks the matrix white while the average is below 1.0 C.
tarefa_5 ==
    /\ Limitador(5)
    /\ IF Executa(contador[5])
       THEN IF media < 1 * ESCALA
            THEN /\ np' = <<"cor", IF estado THEN "apagado" ELSE "branco">>
                 /\ estado' = ~estado
            ELSE /\ np' = <<"cor", "apagado">>
                 /\ UNCHANGED estado
       ELSE UNCHANGED <<estado, np>>
    /\ UNCHANGED t

Next ==
    \/ tarefa_1
    \/ tarefa_2
    \/ tarefa_3
    \/ tarefa_4
    \/ tarefa_5
    \/ DmaPalavra
    \/ dma_handler
    \/ PassaTempo

Spec == Init /\ [][Next]_vars

\* The timers keep firing, the clock keeps advancing, a started transfer
\* moves its words and its interrupt is served.
Justica ==
    /\ WF_vars(tarefa_1) /\ WF_vars(tarefa_2) /\ WF_vars(tarefa_3)
    /\ WF_vars(tarefa_4) /\ WF_vars(tarefa_5)
    /\ WF_vars(DmaPalavra) /\ WF_vars(dma_handler) /\ WF_vars(PassaTempo)

SpecVivo == InitVivo /\ [][Next]_vars /\ Justica

\* ---------------------------------------------------------- properties
\* A step of tarefa_1 that calls the state machine.
PassoMaquina == vez = 1 /\ vez' = 2 /\ chamou' = 1

\* A step of one of the throttled tasks.
PassoJusante == vez \in Jusante /\ vez' # vez

\* C1: a call of tarefa1_obter_media_temp in ESTADO_AGUARDANDO_DMA with
\* dma_temp_done false changes neither the state, the sum, the sample count,
\* the window start, the average nor the flag, starts no transfer and
\* returns false; this is so however many times it is repeated.
C1_EsperaSemEfeito ==
    [][(PassoMaquina /\ estado_t1 = "AGUARDANDO_DMA" /\ ~dma_temp_done)
          => /\ UNCHANGED <<estado_t1, soma_temp, total_amostras,
                            inicio_amostragem, media_temp, buffer_temp,
                            dma_temp_done>>
             /\ UNCHANGED <<dma_restante, adc_ligado, id_transf>>
             /\ ciclo_finalizado' = FALSE]_vars

\* Two calls in a row found the transfer unfinished.
C1_Testemunha ==
    estado_t1 = "AGUARDANDO_DMA" /\ ~dma_temp_done /\ ociosas = 2

\* The transitions of the state machine.
Transicoes ==
    { <<"PARADO", "INICIANDO">>, <<"INICIANDO", "AGUARDANDO_DMA">>,
      <<"AGUARDANDO_DMA", "INICIANDO">>, <<"AGUARDANDO_DMA", "PARADO">> }

\* C2: the state changes only in a call of the state machine and then by
\* one of the four transitions; the call returns true exactly when it takes
\* AGUARDANDO_DMA -> PARADO, and then dma_temp_done was true and the time
\* since inicio_amostragem was at least DURACAO_AMOSTRAGEM_US.
C2_UmaTransicao ==
    [][/\ estado_t1' # estado_t1
            => PassoMaquina /\ <<estado_t1, estado_t1'>> \in Transicoes
       /\ PassoMaquina
            => /\ ciclo_finalizado' <=>
                    (estado_t1 = "AGUARDANDO_DMA" /\ estado_t1' = "PARADO")
               /\ ciclo_finalizado' =>
                    /\ dma_temp_done
                    /\ agora - inicio_amostragem >= DURACAO_AMOSTRAGEM_US]_vars

\* A cycle that took AGUARDANDO_DMA -> INICIANDO and then finished.
C2_Testemunha ==
    ciclo_finalizado /\ estado_t1 = "PARADO"
    /\ total_amostras = 2 * BLOCO_AMOSTRAS

\* C3: leitura_temp_concluida starts false and changes exactly once, from
\* false to true, however many cycles are run.
C3_PortaoUmaVez ==
    /\ mudancas <= 1
    /\ leitura_temp_concluida <=> mudancas = 1
    /\ latches >= 1 => mudancas = 1

\* The gate after the second latched cycle.
C3_Testemunha == latches = 2 /\ leitura_temp_concluida /\ mudancas = 1

\* C4: while leitura_temp_concluida is false a call of tarefa_2 .. tarefa_5
\* changes nothing: no payload runs, the counters stay at 0 and media and t
\* are not written; a payload runs only with the gate open.
C4_PortaoFechado ==
    [][/\ ~leitura_temp_concluida'
            => \A i \in Jusante : contador'[i] = 0 /\ exec'[i] = 0
       /\ (PassoJusante /\ ~leitura_temp_concluida)
            => UNCHANGED <<contador, exec, media, t, estado, np>>
       /\ exec' # exec => leitura_temp_concluida]_vars

\* A finished first cycle not yet latched: every tick so far ran the four
\* throttled tasks with the gate closed.
C4_Testemunha ==
    ~leitura_temp_concluida /\ ciclo_finalizado /\ vez = 1

\* C5: every counter stays in 0 .. K-1, and a call resets its counter to 0
\* exactly when it runs the payload.
C5_Contador ==
    [][\A i \in Jusante :
          /\ contador'[i] \in 0..(K - 1)
          /\ exec'[i] # exec[i]
               <=> (contador[i] # 0 /\ contador'[i] = 0)]_vars

\* tarefa_5 has run its payload twice and is back at 0.
C5_Testemunha == exec[5] = 2 /\ contador[5] = 0

\* C6: with the gate open, a throttled task has run its payload once per K
\* calls: after n calls it has run n \div K times and its counter is n % K,
\* so the payload runs on calls 3, 6 and 9 (the call of the tick in which
\* the gate opened being call 1).
C6_UmaVezEmK ==
    \A i \in Jusante :
        /\ exec[i] = inv[i] \div K
        /\ contador[i] = inv[i] % K

\* Nine calls of each throttled task after the gate opened.
C6_Testemunha ==
    \A i \in Jusante : inv[i] = 3 * K /\ exec[i] = 3 /\ contador[i] = 0

\* C7 as stated: once a call of the state machine has returned true, the
\* gate is open.
C7_Original == completos >= 1 => leitura_temp_concluida

\* C7 as amended: the gate is opened by the call of tarefa_1 that follows
\* the one whose state-machine call returned true (the latch step); it is
\* open exactly when a finished cycle has been latched, and every finished
\* cycle but a pending one has been latched.
C7_PortaoNoLatch ==
    /\ leitura_temp_concluida <=> latches >= 1
    /\ latches = completos - (IF ciclo_finalizado THEN 1 ELSE 0)

\* The first finished cycle, latched.
C7_Testemunha ==
    completos = 1 /\ latches = 1 /\ leitura_temp_concluida

\* C8 as stated: every call of tarefa_1 calls the state machine once.
C8_Original == vez # 1 => chamou = 1

\* C8 as amended: a call of tarefa_1 calls the state machine once when
\* ciclo_finalizado is false; when it is true (the tick after a finished
\* cycle) it does not call it and the state machine stays as it is.
C8_UmaChamadaPorTick ==
    [][(vez = 1 /\ vez' = 2)
          => /\ chamou' = (IF ciclo_finalizado THEN 0 ELSE 1)
             /\ ciclo_finalizado => UNCHANGED smVars]_vars

\* The tick after a latch step: the state machine is called again.
C8_Testemunha == latches >= 1 /\ vez = 2 /\ chamou = 1

\* C9's state part: a transfer is in flight only in ESTADO_AGUARDANDO_DMA
\* and with the flag clear; no block was accumulated with a transfer in
\* flight; a flag seen true by the waiting state machine, and a pending
\* interrupt, are those of the transfer started last.
C9_Estado ==
    /\ dma_restante > 0
         => estado_t1 = "AGUARDANDO_DMA" /\ ~dma_temp_done /\ ~irq_pendente
    /\ ~leitura_suja
    /\ (estado_t1 = "AGUARDANDO_DMA" /\ dma_temp_done)
         => dma_restante = 0 /\ sinal_de = id_transf /\ ~irq_pendente
    /\ irq_pendente
         => /\ estado_t1 = "AGUARDANDO_DMA"
            /\ id_concluida = id_transf
            /\ ~dma_temp_done

\* C9: buffer_temp is never accumulated while a transfer is in flight: a
\* transfer is started only by the state machine in ESTADO_INICIANDO, with
\* no transfer in flight and with the flag cleared by the same call, and the
\* flag the state machine consumes was raised by the transfer started last.
C9_SemLeituraEmVoo ==
    [][/\ C9_Estado'
       /\ id_transf' # id_transf
            => /\ PassoMaquina
               /\ estado_t1 = "INICIANDO"
               /\ dma_restante = 0 /\ ~irq_pendente
               /\ ~dma_temp_done'
       /\ total_amostras' > total_amostras
            => dma_temp_done /\ dma_restante = 0 /\ sinal_de = id_transf]_vars

\* The second block's flag, seen by the waiting state machine.
C9_Testemunha ==
    /\ estado_t1 = "AGUARDANDO_DMA" /\ dma_temp_done
    /\ id_transf = 2 /\ sinal_de = 2 /\ total_amostras = BLOCO_AMOSTRAS

\* C10: when a cycle has finished, tarefa1_termina is soma_temp divided by
\* total_amostras, soma_temp being the sum of the converted samples that
\* the DMA delivered in this cycle and total_amostras their number; if all
\* of them were the raw value v it is convert_to_celsius(v).
C10_Media ==
    (estado_t1 = "PARADO" /\ completos >= 1)
        => /\ soma_temp = g_soma
           /\ total_amostras = g_n
           /\ tarefa1_termina = g_soma \div g_n
           /\ \A v \in Amostras :
                 g_valores = {v} => tarefa1_termina = convert_to_celsius(v)

\* The second cycle finished, of two blocks of the same raw value.
C10_Testemunha ==
    /\ ciclo_finalizado /\ completos = 2
    /\ g_n = 2 * BLOCO_AMOSTRAS /\ g_valores = {934}

\* The least integer not below a / b.
Teto(a, b) == (a + b - 1) \div b

\* C11 as stated: a cycle reports true after exactly
\* ceil(DURACAO_AMOSTRAGEM_US / DURACAO_BLOCO) accumulated blocks.
C11_Original ==
    ciclo_finalizado
        => total_amostras =
              Teto(DURACAO_AMOSTRAGEM_US, DURACAO_BLOCO) * BLOCO_AMOSTRAS

\* C12: while the state machine waits and the flag is not raised, no step
\* takes it out of ESTADO_AGUARDANDO_DMA or changes the sums, the window
\* start, the average, media or the gate, and every call returns false; a
\* throttled task called meanwhile with the gate open still runs its
\* payload on every K-th call, reading the same media.
C12_Parado ==
    [][(estado_t1 = "AGUARDANDO_DMA" /\ ~dma_temp_done /\ ~dma_temp_done')
          => /\ estado_t1' = "AGUARDANDO_DMA"
             /\ UNCHANGED <<soma_temp, total_amostras, inicio_amostragem,
                            media_temp, media, leitura_temp_concluida>>
             /\ ~ciclo_finalizado /\ ~ciclo_finalizado'
             /\ (PassoJusante /\ leitura_temp_concluida)
                  => \A i \in Jusante :
                        exec'[i] # exec[i]
                           <=> (vez = i /\ contador[i] = K - 1)]_vars

\* The second transfer has moved no word while tarefa_5 ran its payload a
\* second and a third time.
C12_Testemunha ==
    /\ estado_t1 = "AGUARDANDO_DMA" /\ ~dma_temp_done
    /\ id_transf = 2 /\ dma_restante = BLOCO_AMOSTRAS
    /\ leitura_temp_concluida /\ exec[5] = 3 /\ ociosas = 2

\* C13: the call that leaves ESTADO_PARADO zeroes soma_temp and
\* total_amostras and sets inicio_amostragem to the current time, and every
\* block accumulated afterwards leaves in them exactly the converted samples
\* the DMA delivered since that call, and their number.
C13_Reinicio ==
    [][/\ (PassoMaquina /\ estado_t1 = "PARADO")
            => /\ estado_t1' = "INICIANDO"
               /\ soma_temp' = 0 /\ total_amostras' = 0
               /\ inicio_amostragem' = agora
       /\ total_amostras' > total_amostras
            => soma_temp' = g_soma /\ total_amostras' = g_n]_vars

\* The second cycle accumulates its first block after a first cycle whose
\* average was latched.
C13_Testemunha ==
    /\ latches = 1 /\ estado_t1 = "INICIANDO" /\ media_temp # 0
    /\ total_amostras = BLOCO_AMOSTRAS /\ inicio_amostragem > 0

\* C14: a finished cycle's average is latched into media by the next call
\* of tarefa_1 and only once: no cycle finishes while an average is
\* pending, media_temp is not rewritten while one is pending, a latch step
\* takes the pending average, and media changes in a latch step only.
C14_UmLatchPorCiclo ==
    [][/\ media' # media
            => vez = 1 /\ ciclo_finalizado /\ latches' = latches + 1
       /\ latches' # latches
            => /\ latches' = latches + 1 /\ latches' = completos
               /\ ciclo_finalizado /\ ~ciclo_finalizado'
               /\ media' = media_temp
               /\ media_temp = g_soma \div g_n
       /\ completos' # completos
            => /\ completos' = completos + 1 /\ latches = completos
               /\ ~ciclo_finalizado /\ ciclo_finalizado'
       /\ ciclo_finalizado
            => /\ media_temp' = media_temp
               /\ (vez = 1 /\ vez' = 2) => latches' = latches + 1
      ]_vars

\* The second cycle's average, latched, differs from the first one's.
C14_Testemunha ==
    /\ latches = 2 /\ completos = 2 /\ media = media_temp
    /\ g_valores = {930, 934}

\* C15: the gate opens in the step that latches the first finished cycle's
\* average into media, never before; with the gate open media is rewritten
\* only with the average of a finished cycle, and a payload runs only with
\* the gate open.
C15_NuncaSemDado ==
    [][/\ leitura_temp_concluida' => latches' >= 1
       /\ (leitura_temp_concluida' /\ ~leitura_temp_concluida)
            => /\ completos >= 1 /\ g_n >= BLOCO_AMOSTRAS
               /\ media' = g_soma \div g_n
       /\ (leitura_temp_concluida /\ media' # media)
            => ciclo_finalizado /\ media' = g_soma \div g_n
       /\ exec' # exec => leitura_temp_concluida /\ latches >= 1]_vars

\* The display task has run its payload on a latched average.
C15_Testemunha ==
    leitura_temp_concluida /\ exec[3] >= 1 /\ media # 0 /\ latches = 1

\* C18: the timers firing in the order tarefa_1 .. tarefa_5, the four
\* counters and payload counts are equal whenever a tick is over; within a
\* tick tarefa_2 has run its payload, writing t, before tarefa_3 or tarefa_4
\* run theirs, so neither ever runs before the first trend analysis.
C18_MesmaFase ==
    [][/\ vez' = 1
            => \A i, j \in Jusante :
                  contador'[i] = contador'[j] /\ exec'[i] = exec'[j]
       /\ \A i \in {3, 4} :
             /\ exec'[i] # exec[i]
                  => exec[2] = exec[i] + 1 /\ t \in Tendencias
             /\ exec'[i] <= exec'[2]]_vars

\* A tick is over in which all four payloads ran for the second time.
C18_Testemunha ==
    vez = 1 /\ t \in Tendencias /\ \A i \in Jusante : exec[i] = 2

\* C17: in every reachable state total_amostras is BLOCO_AMOSTRAS times the
\* number of blocks consumed so far in the current cycle; the call that
\* computes the average divides by a total_amostras that is at least
\* BLOCO_AMOSTRAS, which is positive.
C17_TotalPorBloco ==
    /\ total_amostras = BLOCO_AMOSTRAS * blocos
    /\ BLOCO_AMOSTRAS > 0
    /\ ciclo_finalizado
          => /\ blocos >= 1
             /\ total_amostras >= BLOCO_AMOSTRAS
             /\ media_temp = soma_temp \div total_amostras

\* The average has just been computed over a cycle of two blocks.
C17_Testemunha ==
    ciclo_finalizado /\ blocos = 2 /\ total_amostras = 2 * BLOCO_AMOSTRAS

\* C19: the gate is not open before the fourth invocation of tarefa_1; the
\* invocation that opens it makes no call of the state machine, finds and
\* leaves the machine in ESTADO_PARADO, and follows the invocation whose
\* call reported a finished cycle.
C19_QuartaChamada ==
    /\ [](leitura_temp_concluida => n_t1 >= 4)
    /\ [](ciclo_finalizado => n_t1 >= 3)
    /\ [][(~leitura_temp_concluida /\ leitura_temp_concluida')
            => /\ vez = 1 /\ vez' = 2
               /\ ciclo_finalizado /\ chamou = 1
               /\ chamou' = 0
               /\ estado_t1 = "PARADO" /\ estado_t1' = "PARADO"
               /\ UNCHANGED <<smVars, dma_restante, adc_ligado, id_transf>>
          ]_vars

\* The gate is open after exactly four invocations of tarefa_1.
C19_Testemunha ==
    leitura_temp_concluida /\ n_t1 = 4

\* C16: the timers firing for ever, the clock advancing and every started
\* transfer raising its flag, a cycle once started reports true, the gate
\* opens, and true is reported again and again, each time followed by the
\* latch step and a new cycle.
C16_SempreTermina ==
    /\ (estado_t1 = "INICIANDO") ~> ciclo_finalizado
    /\ <>leitura_temp_concluida
    /\ []<>ciclo_finalizado
    /\ []<>(~ciclo_finalizado /\ estado_t1 = "INICIANDO")

\* A later cycle of a run without end has finished, the gate being open.
C16_Testemunha ==
    sem_limite /\ ciclo_finalizado /\ leitura_temp_concluida

=============================================================================
